---- MODULE Spec2Model ----
(***************************************************************************)
(* GeoAI chat front end: the streaming turn of ChatInterface.handleSubmit  *)
(* (fetch, chunked read, line framing, JSON decoding, message reducer),    *)
(* handleStop and the sidebar's handleStartNewChat; and the Electron main  *)
(* process that supervises the backend service (startBackend,             *)
(* findAvailablePort, waitForBackend, stopBackend, the exit handler, the   *)
(* restart timer, the application lifecycle) with the front end's ways of  *)
(* obtaining the service address.                                          *)
(*                                                                         *)
(* Text is a sequence of symbols.  The wire carries bytes; every byte of   *)
(* the model is one ASCII run except the two bytes "C3" "A9", the UTF-8    *)
(* encoding of the character "é" used in the source descriptor.            *)
(*   "data:" " "   the marker `data: ` (two symbols, so a chunk boundary   *)
(*                 can fall inside the marker)                             *)
(*   "{S" .. "}"   {"type":"sources","sources":[ .. ]}                     *)
(*   "{T" .. "}"   {"type":"token","content":" .. "}                       *)
(*   "{E" .. "}"   {"type":"error","error":" .. "}                         *)
(*   "{D" "}"      {"type":"done"}                                         *)
(*   "\n"          the record terminator                                   *)
(***************************************************************************)
EXTENDS Integers, Sequences, FiniteSets, TLC

VARIABLES
    messages,      \* page.tsx: useState<Message[]>, shared with the sidebar
    isProcessing,  \* ChatInterface: useState(false)
    isThinking,    \* ChatInterface: useState(false), component-level flag
    error,         \* ChatInterface: useState<string | null>(null)
    crashed,       \* a state updater threw while rendering: the tree is gone
    streams,       \* one record per handleSubmit invocation that passed its guard
    quota,         \* records the service may still send (model bound)
    turnCap,       \* submissions the user may still make (model bound)
    app,            \* Electron app: "running", "quitting" (before-quit emitted), "ended"
    platform,       \* process.platform
    mainWindow,     \* main.js: let mainWindow ("undefined", "open", "null")
    backendProcess, \* main.js: let backendProcess (0: undefined or null, else a child)
    backendPort,    \* main.js: let backendPort = 8000
    backendReady,   \* main.js: let backendReady = false
    children,       \* the child processes spawned so far
    starts,         \* the invocations of startBackend so far
    timers,         \* pending restart timers: milliseconds left, oldest first
    busy,           \* loopback ports held by processes other than the children
    spawnCap,       \* children that may still be spawned (model bound)
    failCap,        \* health requests that may still fail (model bound)
    baseUrl,        \* api.ts: ApiService.baseUrl (0: null, else the port of the URL)
    hook,           \* useBaseUrl of the sidebar: baseUrl and isLoading
    sent            \* the HTTP request of the front end that is in flight

chatVars == <<messages, isProcessing, isThinking, error, crashed, streams, quota, turnCap>>

supVars == <<app, platform, mainWindow, backendProcess, backendPort, backendReady,
             children, starts, timers, busy, spawnCap, failCap>>

frontVars == <<baseUrl, hook, sent>>

vars == <<chatVars, supVars, frontVars>>

\* ---------------------------------------------------------------- bounds
MaxTurns == 2      \* submissions per behaviour of Spec
MaxShared == 1     \* records sent over all streams of a behaviour of Spec
MaxRecords == 3    \* records sent on the single stream of SpecTurn
MaxLines == 2      \* lines sent on the single stream of SpecLines
MaxCut == 2        \* bytes that a response of SpecLines may lack at its end

\* ---------------------------------------------------------------- text
Marker == <<"data:", " ">>
MarkerLen == Len(Marker)
Newline == "\n"
Whitespace == {" ", "\r", "\t", Newline}
Replacement == "U+FFFD"
NoSources == <<>>
NullError == <<>>

Last(s) == s[Len(s)]
Front(s) == SubSeq(s, 1, Len(s) - 1)

\* The kinds of record the service sends: sources, token, done, error, a
\* record whose JSON is cut short ("M") and a token whose content is the empty
\* string ("Z").
Kinds == {"S", "T", "D", "E", "M", "Z"}

\* The kinds of line a response may hold besides: a line without the marker
\* ("C", an SSE comment), a record of a type the client does not know ("U"),
\* a record without type that carries a true `done` field ("F"), and a token
\* record on a line indented and ended by CR LF ("W").
LineKinds == {"S", "T", "D", "E", "C", "U", "F", "W"}

TokenText(n) == IF n % 2 = 1 THEN "Hi" ELSE " there"

ErrorText == <<"boom">>

Payload(kind, n) ==
    CASE kind = "S" -> <<"{S", "C3", "A9", "}">>
      [] kind = "T" -> <<"{T", TokenText(n), "}">>
      [] kind = "D" -> <<"{D", "}">>
      [] kind = "E" -> <<"{E">> \o ErrorText \o <<"}">>
      [] kind = "M" -> <<"{T", TokenText(n)>>
      [] kind = "Z" -> <<"{T", "}">>
      [] kind = "U" -> <<"{U", "}">>
      [] kind = "F" -> <<"{F", "}">>

\* The line of a record of kind `kind`, without its terminator.
Line(kind, n) ==
    CASE kind = "C" -> <<":", "keep-alive">>
      [] kind = "W" -> <<" ">> \o Marker \o Payload("T", n) \o <<"\r">>
      [] OTHER -> Marker \o Payload(kind, n)

RECURSIVE Encode(_, _)
\* The bytes of a response whose records have the kinds `script`; the n-th
\* token record carries TokenText(n).
Encode(script, n) ==
    IF script = <<>> THEN <<>>
    ELSE LET k == Head(script)
             m == IF k \in {"T", "M", "W"} THEN n + 1 ELSE n
         IN Line(k, m) \o <<Newline>> \o Encode(Tail(script), m)

Scripts(n) == UNION {[1..l -> Kinds] : l \in 0..n}

LineScripts(n) == UNION {[1..l -> LineKinds] : l \in 0..n}

\* ---------------------------------------------------------------- decoding
RECURSIVE Utf8(_)
\* TextDecoder.decode(value, { stream: true }) on the bytes held over from the
\* previous call followed by the chunk: the decoded text and the bytes of an
\* incomplete character, which wait for the next chunk.
Utf8(bytes) ==
    IF bytes = <<>> THEN [text |-> <<>>, pending |-> <<>>]
    ELSE IF Head(bytes) = "C3"
         THEN IF Len(bytes) = 1 THEN [text |-> <<>>, pending |-> bytes]
              ELSE IF bytes[2] = "A9"
                   THEN LET r == Utf8(SubSeq(bytes, 3, Len(bytes)))
                        IN [r EXCEPT !.text = <<"é">> \o @]
                   ELSE LET r == Utf8(Tail(bytes))
                        IN [r EXCEPT !.text = <<Replacement>> \o @]
         ELSE LET r == Utf8(Tail(bytes))
                  c == IF Head(bytes) = "A9" THEN Replacement ELSE Head(bytes)
              IN [r EXCEPT !.text = <<c>> \o @]

decode(pending, value) == Utf8(pending \o value)

RECURSIVE split(_)
\* String.prototype.split('\n'): the segments between newlines, at least one.
split(text) ==
    IF \A i \in 1..Len(text) : text[i] # Newline THEN <<text>>
    ELSE LET i == CHOOSE j \in 1..Len(text) :
                      text[j] = Newline /\ \A k \in 1..(j - 1) : text[k] # Newline
         IN <<SubSeq(text, 1, i - 1)>> \o split(SubSeq(text, i + 1, Len(text)))

\* The loop without the carry-over: the partial line is dropped.
popDropped(lines) == <<>>

\* buffer = lines.pop() || '': the segment after the last newline is carried
\* over to the next chunk.
pop(lines) == Last(lines)

RECURSIVE trimStart(_)
trimStart(t) == IF t # <<>> /\ Head(t) \in Whitespace THEN trimStart(Tail(t)) ELSE t

RECURSIVE trimEnd(_)
trimEnd(t) == IF t # <<>> /\ Last(t) \in Whitespace THEN trimEnd(Front(t)) ELSE t

trim(t) == trimEnd(trimStart(t))

startsWith(t, prefix) == Len(t) >= Len(prefix) /\ SubSeq(t, 1, Len(prefix)) = prefix

Opening == {"{S", "{T", "{D", "{E", "{U", "{F"}
Structural == Opening \cup {"}"}

TypeOf(open) ==
    CASE open = "{S" -> "sources"
      [] open = "{T" -> "token"
      [] open = "{D" -> "done"
      [] open = "{E" -> "error"
      [] open = "{U" -> "ping"
      [] open = "{F" -> "undefined"

\* JSON.parse: the value of a complete object (its type, the body that goes
\* with the type, and whether its `done` field is true), or a SyntaxError
\* (ok = FALSE) for anything else, such as an object that is cut short.
JSONparse(payload) ==
    LET t == trim(payload)
        wellFormed ==
            /\ Len(t) >= 2
            /\ t[1] \in Opening
            /\ Last(t) = "}"
            /\ \A i \in 2..(Len(t) - 1) : t[i] \notin Structural
            /\ (t[1] = "{D" => Len(t) = 2)
    IN IF wellFormed
       THEN [ok |-> TRUE, type |-> TypeOf(t[1]), body |-> SubSeq(t, 2, Len(t) - 1),
             done |-> t[1] = "{F"]
       ELSE [ok |-> FALSE, type |-> "SyntaxError", body |-> <<>>, done |-> FALSE]

\* Error messages are texts; no Error of the program has an empty message, so
\* the empty text stands for the null of useState<string | null>.
SyntaxErrorMessage == <<"Unexpected end of JSON input">>
UnknownError == <<"Unknown error occurred">>
FetchError == <<"Failed to get response">>
TransportError == <<"network error">>

\* ---------------------------------------------------------------- reducer
Greeting ==
    [role |-> "assistant", content |-> <<"Hello there! How can I help you today?">>,
     sources |-> NoSources, isThinking |-> FALSE, turn |-> 0]

UserMessage(text, t) ==
    [role |-> "user", content |-> text, sources |-> NoSources,
     isThinking |-> FALSE, turn |-> t]

Placeholder(t) ==
    [role |-> "assistant", content |-> <<>>, sources |-> NoSources,
     isThinking |-> TRUE, turn |-> t]

\* setMessages(prev => { ...; lastMessage.sources = data.sources; ... })
setSources(prev, sources) ==
    IF Last(prev).role = "assistant"
    THEN [prev EXCEPT ![Len(prev)] = [@ EXCEPT !.sources = sources, !.isThinking = TRUE]]
    ELSE prev

\* The token updater appending to the content it finds instead of replacing it.
setContentAppended(prev, content) ==
    IF Last(prev).role = "assistant"
    THEN [prev EXCEPT ![Len(prev)] = [@ EXCEPT !.isThinking = FALSE, !.content = @ \o content]]
    ELSE prev

\* setMessages(prev => { ...; lastMessage.content = messageContent; ... })
setContent(prev, content) ==
    IF Last(prev).role = "assistant"
    THEN [prev EXCEPT ![Len(prev)] = [@ EXCEPT !.isThinking = FALSE, !.content = content]]
    ELSE prev

\* setMessages(prev => prev.slice(0, -1))
dropLast(prev) == IF prev = <<>> THEN <<>> ELSE Front(prev)

\* The body of the `for (const line of lines)` loop on one line.  r carries the
\* state the loop works on: the message list, messageContent, isProcessing,
\* the events applied so far, the message of a thrown Error (thrown) and
\* whether an updater met an empty list (its lastMessage is undefined).
applyLine(r, line) ==
    LET trimmedLine == trim(line) IN
    IF ~startsWith(trimmedLine, Marker) THEN r
    ELSE LET data == JSONparse(SubSeq(trimmedLine, MarkerLen + 1, Len(trimmedLine))) IN
         IF ~data.ok
         THEN [r EXCEPT !.thrown = SyntaxErrorMessage]
         ELSE CASE data.type = "sources" ->
                     IF r.messages = <<>>
                     THEN [r EXCEPT !.undefinedLast = TRUE,
                                    !.applied = Append(@, [type |-> "sources", body |-> data.body])]
                     ELSE [r EXCEPT !.messages = setSources(@, data.body),
                                    !.applied = Append(@, [type |-> "sources", body |-> data.body])]
                [] data.type = "token" ->
                     LET content == r.messageContent \o data.body IN
                     IF r.messages = <<>>
                     THEN [r EXCEPT !.undefinedLast = TRUE,
                                    !.messageContent = content,
                                    !.applied = Append(@, [type |-> "token", body |-> data.body])]
                     ELSE [r EXCEPT !.messages = setContent(@, content),
                                    !.messageContent = content,
                                    !.applied = Append(@, [type |-> "token", body |-> data.body])]
                [] data.type = "error" ->
                     [r EXCEPT !.thrown = IF data.body = <<>> THEN UnknownError ELSE data.body,
                               !.applied = Append(@, [type |-> "error", body |-> data.body])]
                [] data.type = "done" ->
                     [r EXCEPT !.isProcessing = FALSE,
                               !.applied = Append(@, [type |-> "done", body |-> <<>>])]
                [] data.type \notin {"sources", "token", "error", "done"} /\ data.done ->
                     [r EXCEPT !.isProcessing = FALSE]
                [] OTHER -> r

RECURSIVE applyLines(_, _)
\* The for loop: the lines in order, left by the first throw.
applyLines(r, lines) ==
    IF lines = <<>> \/ r.thrown # NullError THEN r
    ELSE applyLines(applyLine(r, Head(lines)), Tail(lines))

\* ---------------------------------------------------------------- main process
MaxSpawns == 2     \* children spawned per behaviour of SpecSup
MaxFails == 5      \* failing health requests per behaviour of SpecSup
MaxInstances == 2  \* children spawned per behaviour of SpecFront

DefaultPort == 8000      \* let backendPort = 8000
PreferredPort == 8000    \* findAvailablePort(8000)
RestartDelay == 5000     \* setTimeout(() => startBackend(), 5000)
ProbeInterval == 1000    \* setTimeout(resolve, 1000)
maxAttempts == 30        \* waitForBackend(maxAttempts = 30)
FallbackPort == 8000     \* 'http://localhost:8000'

\* The ports findAvailablePort can come to try: the preferred port may be held
\* by another process, and each child holds one.
Ports == PreferredPort..(PreferredPort + MaxSpawns)

Platforms == {"darwin", "linux"}

\* A child spawned without BACKEND_PORT in its environment.
NewChildOnDefault(port) == [state |-> "starting", port |-> DefaultPort, signals |-> 0]

\* A child process: "starting" (spawned, not yet listening), "serving" (bound
\* to the BACKEND_PORT it was given, answering /health) or "exited"; or the
\* process could not be spawned: "errorBox" while the error box of its 'error'
\* handler is open, "failed" after it. signals counts the SIGTERMs sent to it.
NewChild(port) == [state |-> "starting", port |-> port, signals |-> 0]

Live == {"starting", "serving"}

Alive(c) == children[c].state \in Live

Serving(p) == \E c \in 1..Len(children) : children[c].state = "serving" /\ children[c].port = p

\* server.listen(p, '127.0.0.1') succeeds.
Free(p) == p \notin busy /\ ~Serving(p)

\* An invocation of startBackend: pc is its position ("listen": awaiting the
\* listener of findAvailablePort on startPort; "fetch": the i-th health request
\* of waitForBackend is in flight to port target; "sleep": in the pause after
\* it, timer milliseconds left; "showErrorBox": in the error dialog of the
\* catch block; "returned"), origin is the caller, child the process it
\* spawned, ok whether waitForBackend returned true.
NewStart(origin) ==
    [pc |-> "listen", origin |-> origin, startPort |-> PreferredPort, i |-> 0,
     timer |-> 0, target |-> 0, child |-> 0, ok |-> FALSE]

InProgress(st) == st.pc # "returned"

\* dialog.showErrorBox is open: the main process runs nothing until it is
\* dismissed.
Blocked ==
    \/ \E a \in 1..Len(starts) : starts[a].pc = "showErrorBox"
    \/ \E c \in 1..Len(children) : children[c].state = "errorBox"

\* What stopBackend works on.
Handle == [backendProcess |-> backendProcess, backendReady |-> backendReady, children |-> children]

\* stopBackend leaving backendProcess as it is.
stopBackendKeeping(h) ==
    IF h.backendProcess # 0
    THEN [h EXCEPT !.backendReady = FALSE,
                   !.children[h.backendProcess].signals =
                       IF h.children[h.backendProcess].state \in Live THEN @ + 1 ELSE @]
    ELSE h

\* function stopBackend(): kill sends the signal unless the child has exited.
stopBackend(h) ==
    IF h.backendProcess # 0
    THEN [h EXCEPT !.backendProcess = 0,
                   !.backendReady = FALSE,
                   !.children[h.backendProcess].signals =
                       IF h.children[h.backendProcess].state \in Live THEN @ + 1 ELSE @]
    ELSE h

\* ipcMain.handle('get-backend-url'): the port of the URL it returns.
getBackendUrl == backendPort

\* getBaseUrl in the Electron renderer.
getBaseUrl == getBackendUrl

NoRequest == [by |-> "none", to |-> 0]

NewHook == [baseUrl |-> FallbackPort, isLoading |-> TRUE]

\* The main process after the module has loaded, and the page before it has.
Constructed(sc, fc) ==
    /\ app = "running"
    /\ mainWindow = "undefined"
    /\ backendProcess = 0
    /\ backendPort = DefaultPort
    /\ backendReady = FALSE
    /\ children = <<>>
    /\ starts = <<>>
    /\ timers = <<>>
    /\ spawnCap = sc
    /\ failCap = fc
    /\ baseUrl = 0
    /\ hook = NewHook
    /\ sent = NoRequest

\* ---------------------------------------------------------------- state
Inputs == {<<"hello">>, <<" ">>}

Open(st) == st.pc # "closed"

\* A stream record: pc is the position of its handleSubmit invocation ("fetch":
\* awaiting getBaseUrl/fetch, "read": in the while loop, "closed": returned);
\* wire holds the bytes of the response not yet read; pending, buffer and
\* messageContent are the locals of the loop.  History kept for the
\* properties: received (the bytes read), applied (the events decoded) and
\* outcome (how the invocation returned: "eof", "syntax" when JSON.parse threw,
\* "error" for an error event, "transport", "fetch", or "crash").
NewStream ==
    [pc |-> "fetch", wire |-> <<>>, pending |-> <<>>, buffer |-> <<>>,
     messageContent |-> <<>>, received |-> <<>>, applied |-> <<>>, outcome |-> ""]

\* Of an invocation that has returned and is not the latest one, only the
\* outcome is kept.
Settle(ss) ==
    [i \in 1..Len(ss) |->
        IF ss[i].pc = "closed" /\ i < Len(ss)
        THEN [NewStream EXCEPT !.pc = "closed", !.outcome = ss[i].outcome]
        ELSE ss[i]]

Init ==
    /\ messages = <<Greeting>>
    /\ isProcessing = FALSE
    /\ isThinking = FALSE
    /\ error = NullError
    /\ crashed = FALSE
    /\ streams = <<>>
    /\ quota = MaxShared
    /\ turnCap = MaxTurns
    /\ Constructed(0, 0)
    /\ platform = "linux"
    /\ busy = {}

\* The same program, one submission, a longer response.
InitTurn ==
    /\ messages = <<Greeting>>
    /\ isProcessing = FALSE
    /\ isThinking = FALSE
    /\ error = NullError
    /\ crashed = FALSE
    /\ streams = <<>>
    /\ quota = MaxRecords
    /\ turnCap = 1
    /\ Constructed(0, 0)
    /\ platform = "linux"
    /\ busy = {}

\* ---------------------------------------------------------------- actions
\* handleSubmit taking the text of the textarea as it is, without trim().
handleSubmitUntrimmed(text) ==
    LET message == text
        list == messages \o <<UserMessage(message, Len(streams) + 1),
                               Placeholder(Len(streams) + 1)>>
    IN /\ ~crashed
       /\ turnCap > 0
       /\ message # <<>>
       /\ ~isProcessing
       /\ error' = NullError
       /\ isProcessing' = TRUE
       /\ messages' = list
       /\ streams' = Settle(Append(streams, NewStream))
       /\ turnCap' = turnCap - 1
       /\ UNCHANGED <<isThinking, crashed, quota, supVars, frontVars>>

\* handleSubmit up to its first await.
handleSubmit(text) ==
    LET message == trim(text)
        list == messages \o <<UserMessage(message, Len(streams) + 1),
                               Placeholder(Len(streams) + 1)>>
    IN /\ ~crashed
       /\ turnCap > 0
       /\ message # <<>>
       /\ ~isProcessing
       /\ error' = NullError
       /\ isProcessing' = TRUE
       /\ messages' = list
       /\ streams' = Settle(Append(streams, NewStream))
       /\ turnCap' = turnCap - 1
       /\ UNCHANGED <<isThinking, crashed, quota, supVars, frontVars>>

\* The catch block of handleSubmit: the error surface, the rollback of the
\* last message, the processing flag.
catch(s, how, message, list, bytes, events) ==
    /\ error' = message
    /\ messages' = dropLast(list)
    /\ isProcessing' = FALSE
    /\ streams' = Settle([streams EXCEPT ![s] =
                     [@ EXCEPT !.pc = "closed", !.outcome = how, !.wire = <<>>,
                               !.received = bytes, !.applied = events]])

\* getBaseUrl and fetch resolve with an OK response that has a body; the
\* service will send the records of `script`.
fetchOk(s, script) ==
    /\ ~crashed
    /\ streams[s].pc = "fetch"
    /\ Len(script) <= quota
    /\ quota' = quota - Len(script)
    /\ streams' = [streams EXCEPT ![s] = [@ EXCEPT !.pc = "read", !.wire = Encode(script, 0)]]
    /\ UNCHANGED <<messages, isProcessing, isThinking, error, crashed, turnCap, supVars, frontVars>>

\* fetch resolves with an OK response made of any lines, which the server
\* closes `cut` bytes before the end of the last line: with cut = 1 the last
\* line lacks its newline, with more it lacks the end of its record too.
fetchOkLines(s, script, cut) ==
    /\ ~crashed
    /\ streams[s].pc = "fetch"
    /\ Len(script) <= quota
    /\ cut > 0 => script # <<>>
    /\ quota' = quota - Len(script)
    /\ LET bytes == Encode(script, 0)
       IN streams' = [streams EXCEPT ![s] = [@ EXCEPT !.pc = "read",
                                                      !.wire = SubSeq(bytes, 1, Len(bytes) - cut)]]
    /\ UNCHANGED <<messages, isProcessing, isThinking, error, crashed, turnCap, supVars, frontVars>>

\* fetch rejects, or the response is not OK.
fetchFail(s) ==
    /\ ~crashed
    /\ streams[s].pc = "fetch"
    /\ catch(s, "fetch", FetchError, messages, <<>>, <<>>)
    /\ UNCHANGED <<isThinking, crashed, quota, turnCap, supVars, frontVars>>

\* One iteration of the while loop whose read returns the next k bytes.
read(s, k) ==
    LET st == streams[s]
        value == SubSeq(st.wire, 1, k)
        d == decode(st.pending, value)
        lines == split(st.buffer \o d.text)
        r == applyLines([messages |-> messages, messageContent |-> st.messageContent,
                         isProcessing |-> isProcessing, applied |-> st.applied,
                         thrown |-> NullError, undefinedLast |-> FALSE],
                        Front(lines))
    IN /\ ~crashed
       /\ st.pc = "read"
       /\ k \in 1..Len(st.wire)
       /\ IF r.undefinedLast
          THEN /\ crashed' = TRUE
               /\ streams' = Settle([streams EXCEPT ![s] =
                                [@ EXCEPT !.pc = "closed", !.outcome = "crash", !.wire = <<>>]])
               /\ UNCHANGED <<messages, isProcessing, error>>
          ELSE IF r.thrown # NullError
          THEN /\ catch(s, IF r.thrown = SyntaxErrorMessage THEN "syntax" ELSE "error",
                        r.thrown, r.messages, st.received \o value, r.applied)
               /\ UNCHANGED crashed
          ELSE /\ messages' = r.messages
               /\ isProcessing' = r.isProcessing
               /\ streams' = [streams EXCEPT ![s] =
                                [@ EXCEPT !.wire = SubSeq(st.wire, k + 1, Len(st.wire)),
                                          !.pending = d.pending,
                                          !.buffer = pop(lines),
                                          !.messageContent = r.messageContent,
                                          !.received = @ \o value,
                                          !.applied = r.applied]]
               /\ UNCHANGED <<error, crashed>>
       /\ UNCHANGED <<isThinking, quota, turnCap, supVars, frontVars>>

\* EOF taken for a failure unless a done event came first.
readEOFStrict(s) ==
    /\ ~crashed
    /\ streams[s].pc = "read"
    /\ streams[s].wire = <<>>
    /\ IF \E i \in 1..Len(streams[s].applied) : streams[s].applied[i].type = "done"
       THEN /\ isProcessing' = FALSE
            /\ streams' = Settle([streams EXCEPT ![s] = [@ EXCEPT !.pc = "closed", !.outcome = "eof"]])
            /\ UNCHANGED <<messages, error>>
       ELSE catch(s, "eof", TransportError, messages, streams[s].received, streams[s].applied)
    /\ UNCHANGED <<isThinking, crashed, quota, turnCap, supVars, frontVars>>

\* EOF after which what is left in the buffer is processed as a last line.
readEOFFlushing(s) ==
    LET st == streams[s]
        r == applyLine([messages |-> messages, messageContent |-> st.messageContent,
                        isProcessing |-> isProcessing, applied |-> st.applied,
                        thrown |-> NullError, undefinedLast |-> FALSE],
                       st.buffer)
    IN /\ ~crashed
       /\ st.pc = "read"
       /\ st.wire = <<>>
       /\ isProcessing' = FALSE
       /\ messages' = IF r.thrown = NullError /\ ~r.undefinedLast THEN r.messages ELSE messages
       /\ streams' = Settle([streams EXCEPT ![s] =
                        [@ EXCEPT !.pc = "closed", !.outcome = "eof", !.applied = r.applied]])
       /\ UNCHANGED <<isThinking, error, crashed, quota, turnCap, supVars, frontVars>>

\* The read that returns done: the loop is left, the flag is reset.
readEOF(s) ==
    /\ ~crashed
    /\ streams[s].pc = "read"
    /\ streams[s].wire = <<>>
    /\ isProcessing' = FALSE
    /\ streams' = Settle([streams EXCEPT ![s] = [@ EXCEPT !.pc = "closed", !.outcome = "eof"]])
    /\ UNCHANGED <<messages, isThinking, error, crashed, quota, turnCap, supVars, frontVars>>

\* The read rejects: the connection dropped.
readFail(s) ==
    /\ ~crashed
    /\ streams[s].pc = "read"
    /\ catch(s, "transport", TransportError, messages, streams[s].received, streams[s].applied)
    /\ UNCHANGED <<isThinking, crashed, quota, turnCap, supVars, frontVars>>

\* The button runs handleStop while isProcessing.
handleStop ==
    /\ ~crashed
    /\ isProcessing
    /\ isThinking' = FALSE
    /\ isProcessing' = FALSE
    /\ UNCHANGED <<messages, error, crashed, streams, quota, turnCap, supVars, frontVars>>

\* Sidebar: clearMemory resolved, the list is replaced by the greeting.
handleStartNewChat ==
    /\ ~crashed
    /\ messages' = <<Greeting>>
    /\ UNCHANGED <<isProcessing, isThinking, error, crashed, streams, quota, turnCap, supVars, frontVars>>

Next ==
    \/ \E text \in Inputs : handleSubmit(text)
    \/ \E s \in 1..Len(streams) : \E script \in Scripts(quota) : fetchOk(s, script)
    \/ \E s \in 1..Len(streams) : fetchFail(s)
    \/ \E s \in 1..Len(streams) : \E k \in 1..Len(streams[s].wire) : read(s, k)
    \/ \E s \in 1..Len(streams) : readEOF(s)
    \/ \E s \in 1..Len(streams) : readFail(s)
    \/ handleStop
    \/ handleStartNewChat

Spec == Init /\ [][Next]_vars

SpecTurn == InitTurn /\ [][Next]_vars

\* The submissions of a behaviour with a single record for all of its
\* responses, whatever the other bounds.
InitSubmit ==
    /\ messages = <<Greeting>>
    /\ isProcessing = FALSE
    /\ isThinking = FALSE
    /\ error = NullError
    /\ crashed = FALSE
    /\ streams = <<>>
    /\ quota = 1
    /\ turnCap = MaxTurns
    /\ Constructed(0, 0)
    /\ platform = "linux"
    /\ busy = {}

SpecSubmit == InitSubmit /\ [][Next]_vars

\* One turn whose response is made of any lines and may end before its last
\* newline.
NextLines ==
    \/ \E text \in Inputs : handleSubmit(text)
    \/ \E s \in 1..Len(streams) : \E script \in LineScripts(quota) : \E cut \in 0..MaxCut :
           fetchOkLines(s, script, cut)
    \/ \E s \in 1..Len(streams) : fetchFail(s)
    \/ \E s \in 1..Len(streams) : \E k \in 1..Len(streams[s].wire) : read(s, k)
    \/ \E s \in 1..Len(streams) : readEOF(s)
    \/ \E s \in 1..Len(streams) : readFail(s)
    \/ handleStop
    \/ handleStartNewChat

InitLines ==
    /\ messages = <<Greeting>>
    /\ isProcessing = FALSE
    /\ isThinking = FALSE
    /\ error = NullError
    /\ crashed = FALSE
    /\ streams = <<>>
    /\ quota = MaxLines
    /\ turnCap = 1
    /\ Constructed(0, 0)
    /\ platform = "linux"
    /\ busy = {}

SpecLines == InitLines /\ [][NextLines]_vars

\* ---------------------------------------------------------------- main process: actions
\* The event loop of the main process delivers events.
Running == app # "ended" /\ ~Blocked

\* startBackend has returned.
Returned(st, ok) ==
    [st EXCEPT !.pc = "returned", !.ok = ok, !.i = 0, !.timer = 0, !.target = 0]

\* function createWindow(): the page is loaded anew.
createWindow ==
    /\ mainWindow' = "open"
    /\ baseUrl' = 0
    /\ hook' = NewHook
    /\ sent' = NoRequest

\* What follows `await startBackend()` in its caller.
Continue(origin) ==
    IF origin = "whenReady" THEN createWindow ELSE UNCHANGED <<mainWindow, frontVars>>

\* app.whenReady().then(...): startBackend is entered and findAvailablePort
\* begins to listen on the preferred port.
whenReady ==
    /\ Running
    /\ starts = <<>>
    /\ starts' = <<NewStart("whenReady")>>
    /\ UNCHANGED <<app, platform, mainWindow, backendProcess, backendPort, backendReady,
                   children, timers, busy, spawnCap, failCap, chatVars, frontVars>>

\* findAvailablePort: the listener reports an error, the next port is tried.
listenError(a) ==
    /\ Running
    /\ starts[a].pc = "listen"
    /\ ~Free(starts[a].startPort)
    /\ starts[a].startPort + 1 \in Ports
    /\ starts' = [starts EXCEPT ![a].startPort = @ + 1]
    /\ UNCHANGED <<app, platform, mainWindow, backendProcess, backendPort, backendReady,
                   children, timers, busy, spawnCap, failCap, chatVars, frontVars>>

\* listening without server.close before resolve: the probe listener keeps
\* the port.
listeningHolding(a) ==
    LET port == starts[a].startPort
        child == Len(children) + 1
    IN /\ Running
       /\ starts[a].pc = "listen"
       /\ Free(port)
       /\ spawnCap > 0
       /\ backendPort' = port
       /\ children' = Append(children, NewChild(port))
       /\ backendProcess' = child
       /\ starts' = [starts EXCEPT ![a] = [@ EXCEPT !.pc = "fetch", !.startPort = 0,
                                                    !.target = port, !.child = child]]
       /\ spawnCap' = spawnCap - 1
       /\ busy' = busy \cup {port}
       /\ UNCHANGED <<app, platform, mainWindow, backendReady, timers, failCap,
                      chatVars, frontVars>>

\* findAvailablePort: the listener is up, is closed and the port is resolved;
\* startBackend assigns backendPort, spawns the child with this BACKEND_PORT,
\* registers the handlers and enters waitForBackend, which sends the first
\* health request.
listening(a) ==
    LET port == starts[a].startPort
        child == Len(children) + 1
    IN /\ Running
       /\ starts[a].pc = "listen"
       /\ Free(port)
       /\ spawnCap > 0
       /\ backendPort' = port
       /\ children' = Append(children, NewChild(port))
       /\ backendProcess' = child
       /\ starts' = [starts EXCEPT ![a] = [@ EXCEPT !.pc = "fetch", !.startPort = 0,
                                                    !.target = port, !.child = child]]
       /\ spawnCap' = spawnCap - 1
       /\ UNCHANGED <<app, platform, mainWindow, backendReady, timers, busy, failCap,
                      chatVars, frontVars>>

\* The child binds the port it was given and serves.
childUp(c) ==
    /\ app # "ended"
    /\ children[c].state = "starting"
    /\ Free(children[c].port)
    /\ children' = [children EXCEPT ![c].state = "serving"]
    /\ UNCHANGED <<app, platform, mainWindow, backendProcess, backendPort, backendReady,
                   starts, timers, busy, spawnCap, failCap, chatVars, frontVars>>

\* findAvailablePort resolves and startBackend goes on as in listening, but
\* the process cannot be spawned: the child emits 'error' as soon as
\* startBackend awaits, and backendProcess.on('error') opens the error box.
onError(a) ==
    LET port == starts[a].startPort
        child == Len(children) + 1
    IN /\ Running
       /\ starts[a].pc = "listen"
       /\ Free(port)
       /\ spawnCap > 0
       /\ backendPort' = port
       /\ children' = Append(children, [NewChild(port) EXCEPT !.state = "errorBox"])
       /\ backendProcess' = child
       /\ starts' = [starts EXCEPT ![a] = [@ EXCEPT !.pc = "fetch", !.startPort = 0,
                                                    !.target = port, !.child = child]]
       /\ spawnCap' = spawnCap - 1
       /\ UNCHANGED <<app, platform, mainWindow, backendReady, timers, busy, failCap,
                      chatVars, frontVars>>

\* The error box of the 'error' handler is dismissed.
dismissError(c) ==
    /\ app # "ended"
    /\ children[c].state = "errorBox"
    /\ children' = [children EXCEPT ![c].state = "failed"]
    /\ UNCHANGED <<app, platform, mainWindow, backendProcess, backendPort, backendReady,
                   starts, timers, busy, spawnCap, failCap, chatVars, frontVars>>

\* backendProcess.stdout.on('data') with a chunk that includes 'Uvicorn running'
\* or 'Started server'. The pipe outlives the process: what the child wrote
\* before it exited can be delivered after its 'exit' event.
onStdout(c) ==
    /\ Running
    /\ Alive(c) \/ children[c].state = "exited"
    /\ backendReady' = TRUE
    /\ UNCHANGED <<app, platform, mainWindow, backendProcess, backendPort, children,
                   starts, timers, busy, spawnCap, failCap, chatVars, frontVars>>

\* onExit with a cap on the restarts: the exit of the MaxSpawns-th child arms
\* no timer.
onExitCapped(c) ==
    /\ Running
    /\ Alive(c)
    /\ children' = [children EXCEPT ![c].state = "exited"]
    /\ backendReady' = FALSE
    /\ timers' = IF mainWindow = "open" /\ c < MaxSpawns
                  THEN Append(timers, RestartDelay)
                  ELSE timers
    /\ UNCHANGED <<app, platform, mainWindow, backendProcess, backendPort, starts, busy,
                   spawnCap, failCap, chatVars, frontVars>>

\* onExit without the test of the main window.
onExitAlways(c) ==
    /\ Running
    /\ Alive(c)
    /\ children' = [children EXCEPT ![c].state = "exited"]
    /\ backendReady' = FALSE
    /\ timers' = Append(timers, RestartDelay)
    /\ UNCHANGED <<app, platform, mainWindow, backendProcess, backendPort, starts, busy,
                   spawnCap, failCap, chatVars, frontVars>>

\* backendProcess.on('exit'): the child has exited, with any code or signal.
onExit(c) ==
    /\ Running
    /\ Alive(c)
    /\ children' = [children EXCEPT ![c].state = "exited"]
    /\ backendReady' = FALSE
    /\ timers' = IF mainWindow = "open" THEN Append(timers, RestartDelay) ELSE timers
    /\ UNCHANGED <<app, platform, mainWindow, backendProcess, backendPort, starts, busy,
                   spawnCap, failCap, chatVars, frontVars>>

\* waitForBackend: the health request is answered with response.ok; the
\* function returns true, startBackend returns, its caller goes on.
healthOk(a) ==
    /\ Running
    /\ starts[a].pc = "fetch"
    /\ Serving(starts[a].target)
    /\ backendReady' = TRUE
    /\ starts' = [starts EXCEPT ![a] = Returned(@, TRUE)]
    /\ Continue(starts[a].origin)
    /\ UNCHANGED <<app, platform, backendProcess, backendPort, children, timers, busy,
                   spawnCap, failCap, chatVars>>

\* waitForBackend: the health request is rejected or answered not OK; the
\* pause of one interval begins.
healthFail(a) ==
    /\ Running
    /\ starts[a].pc = "fetch"
    /\ failCap > 0
    /\ starts' = [starts EXCEPT ![a] = [@ EXCEPT !.pc = "sleep", !.timer = ProbeInterval]]
    /\ failCap' = failCap - 1
    /\ UNCHANGED <<app, platform, mainWindow, backendProcess, backendPort, backendReady,
                   children, timers, busy, spawnCap, chatVars, frontVars>>

\* wake without the limit of the loop.
wakeAgain(a) ==
    /\ Running
    /\ starts[a].pc = "sleep"
    /\ starts[a].timer = 0
    /\ starts' = [starts EXCEPT ![a] = [@ EXCEPT !.pc = "fetch", !.i = @ + 1,
                                                    !.target = backendPort]]
    /\ UNCHANGED <<app, platform, mainWindow, backendProcess, backendPort, backendReady,
                   children, timers, busy, spawnCap, failCap, chatVars, frontVars>>

\* waitForBackend: the pause is over; the next health request goes to the
\* current backendPort, or the attempts are used up, the function throws, and
\* the catch block of startBackend opens the error box.
wake(a) ==
    /\ Running
    /\ starts[a].pc = "sleep"
    /\ starts[a].timer = 0
    /\ starts' = [starts EXCEPT ![a] =
                    IF @.i + 1 < maxAttempts
                    THEN [@ EXCEPT !.pc = "fetch", !.i = @ + 1, !.target = backendPort]
                    ELSE [@ EXCEPT !.pc = "showErrorBox", !.i = @ + 1, !.target = 0]]
    /\ UNCHANGED <<app, platform, mainWindow, backendProcess, backendPort, backendReady,
                   children, timers, busy, spawnCap, failCap, chatVars, frontVars>>

\* The error box is dismissed: startBackend returns, its caller goes on.
dismiss(a) ==
    /\ app # "ended"
    /\ starts[a].pc = "showErrorBox"
    /\ starts' = [starts EXCEPT ![a] = Returned(@, FALSE)]
    /\ Continue(starts[a].origin)
    /\ UNCHANGED <<app, platform, backendProcess, backendPort, backendReady, children,
                   timers, busy, spawnCap, failCap, chatVars>>

\* restart as the callback of a repeating timer: the timer stays armed.
restartRepeating ==
    /\ Running
    /\ timers # <<>>
    /\ Head(timers) = 0
    /\ timers' = Append(Tail(timers), RestartDelay)
    /\ starts' = Append(starts, NewStart("timer"))
    /\ UNCHANGED <<app, platform, mainWindow, backendProcess, backendPort, backendReady,
                   children, busy, spawnCap, failCap, chatVars, frontVars>>

\* setTimeout(() => startBackend(), 5000) fires: startBackend is entered.
restart ==
    /\ Running
    /\ timers # <<>>
    /\ Head(timers) = 0
    /\ timers' = Tail(timers)
    /\ starts' = Append(starts, NewStart("timer"))
    /\ UNCHANGED <<app, platform, mainWindow, backendProcess, backendPort, backendReady,
                   children, busy, spawnCap, failCap, chatVars, frontVars>>

Less(ms) == IF ms > ProbeInterval THEN ms - ProbeInterval ELSE 0

\* Time passes, by one interval.
Tick ==
    /\ app # "ended"
    /\ \/ \E j \in 1..Len(timers) : timers[j] > 0
       \/ \E a \in 1..Len(starts) : starts[a].timer > 0
    /\ timers' = [j \in 1..Len(timers) |-> Less(timers[j])]
    /\ starts' = [a \in 1..Len(starts) |-> [starts[a] EXCEPT !.timer = Less(@)]]
    /\ UNCHANGED <<app, platform, mainWindow, backendProcess, backendPort, backendReady,
                   children, busy, spawnCap, failCap, chatVars, frontVars>>

\* The assignments of stopBackend.
stop ==
    LET h == stopBackend(Handle)
    IN /\ backendProcess' = h.backendProcess
       /\ backendReady' = h.backendReady
       /\ children' = h.children

\* app.on('before-quit'): a quit was requested (menu, Cmd+Q, app.quit());
\* Electron then closes the windows, and ends at once when there is none.
beforeQuit ==
    /\ Running
    /\ app = "running"
    /\ stop
    /\ app' = IF mainWindow = "open" THEN "quitting" ELSE "ended"
    /\ UNCHANGED <<platform, mainWindow, backendPort, starts, timers, busy, spawnCap,
                   failCap, chatVars, frontVars>>

\* mainWindow.on('closed'), then app.on('window-all-closed') unless the app is
\* quitting, in which case it ends.
closed ==
    /\ Running
    /\ mainWindow = "open"
    /\ mainWindow' = "null"
    /\ baseUrl' = 0
    /\ hook' = NewHook
    /\ sent' = NoRequest
    /\ IF app = "running" /\ platform # "darwin"
       THEN stop /\ app' = "ended"
       ELSE /\ app' = IF app = "quitting" THEN "ended" ELSE app
            /\ UNCHANGED <<backendProcess, backendReady, children>>
    /\ UNCHANGED <<platform, backendPort, starts, timers, busy, spawnCap, failCap, chatVars>>

\* app.on('activate') with no window.
activate ==
    /\ Running
    /\ app = "running"
    /\ platform = "darwin"
    /\ mainWindow = "null"
    /\ createWindow
    /\ UNCHANGED <<app, platform, backendProcess, backendPort, backendReady, children,
                   starts, timers, busy, spawnCap, failCap, chatVars>>

\* The main process is killed or crashes: no handler runs.
terminate ==
    /\ app # "ended"
    /\ app' = "ended"
    /\ UNCHANGED <<platform, mainWindow, backendProcess, backendPort, backendReady,
                   children, starts, timers, busy, spawnCap, failCap, chatVars, frontVars>>

\* Another process takes, or gives up, the preferred port.
occupy ==
    /\ app # "ended"
    /\ Free(PreferredPort)
    /\ busy' = busy \cup {PreferredPort}
    /\ UNCHANGED <<app, platform, mainWindow, backendProcess, backendPort, backendReady,
                   children, starts, timers, spawnCap, failCap, chatVars, frontVars>>

release ==
    /\ app # "ended"
    /\ busy # {}
    /\ busy' = {}
    /\ UNCHANGED <<app, platform, mainWindow, backendProcess, backendPort, backendReady,
                   children, starts, timers, spawnCap, failCap, chatVars, frontVars>>

\* Another process binds, or closes, a socket on any of the ports.
bind(p) ==
    /\ app # "ended"
    /\ Free(p)
    /\ busy' = busy \cup {p}
    /\ UNCHANGED <<app, platform, mainWindow, backendProcess, backendPort, backendReady,
                   children, starts, timers, spawnCap, failCap, chatVars, frontVars>>

unbind(p) ==
    /\ app # "ended"
    /\ p \in busy
    /\ busy' = busy \ {p}
    /\ UNCHANGED <<app, platform, mainWindow, backendProcess, backendPort, backendReady,
                   children, starts, timers, spawnCap, failCap, chatVars, frontVars>>

\* ---------------------------------------------------------------- front end: addresses
InPage == app # "ended" /\ mainWindow = "open"

\* ApiService.getBaseUrlCached
getBaseUrlCached == IF baseUrl = 0 THEN getBaseUrl ELSE baseUrl

\* useBaseUrl: the effect of the mount, loadBaseUrl.
loadBaseUrl ==
    /\ InPage
    /\ ~Blocked
    /\ hook.isLoading
    /\ hook' = [baseUrl |-> getBaseUrl, isLoading |-> FALSE]
    /\ UNCHANGED <<baseUrl, sent, chatVars, supVars>>

\* handleSubmit: getBaseUrl, then fetch(`${baseUrl}/chat/stream`).
chatStream ==
    /\ InPage
    /\ ~Blocked
    /\ sent = NoRequest
    /\ sent' = [by |-> "chat/stream", to |-> getBaseUrl]
    /\ UNCHANGED <<baseUrl, hook, chatVars, supVars>>

\* A method of ApiService: getBaseUrlCached, then fetch.
apiCall ==
    /\ InPage
    /\ baseUrl = 0 => ~Blocked
    /\ sent = NoRequest
    /\ baseUrl' = getBaseUrlCached
    /\ sent' = [by |-> "api", to |-> getBaseUrlCached]
    /\ UNCHANGED <<hook, chatVars, supVars>>

\* A file link of the sidebar, href={`${baseUrl}/files/...`}, is followed.
fileLink ==
    /\ InPage
    /\ sent = NoRequest
    /\ sent' = [by |-> "files", to |-> hook.baseUrl]
    /\ UNCHANGED <<baseUrl, hook, chatVars, supVars>>

\* The request in flight is answered or fails.
settled ==
    /\ InPage
    /\ sent # NoRequest
    /\ sent' = NoRequest
    /\ UNCHANGED <<baseUrl, hook, chatVars, supVars>>

Children == 1..Len(children)
Starts == 1..Len(starts)

NextSup ==
    \/ whenReady
    \/ \E a \in Starts : listenError(a)
    \/ \E a \in Starts : listening(a)
    \/ \E c \in Children : childUp(c)
    \/ \E a \in Starts : onError(a)
    \/ \E c \in Children : dismissError(c)
    \/ \E c \in Children : onStdout(c)
    \/ \E c \in Children : onExit(c)
    \/ \E a \in Starts : healthOk(a)
    \/ \E a \in Starts : healthFail(a)
    \/ \E a \in Starts : wake(a)
    \/ \E a \in Starts : dismiss(a)
    \/ restart
    \/ Tick
    \/ beforeQuit
    \/ closed
    \/ activate
    \/ terminate
    \/ occupy
    \/ release

NextApp ==
    \/ NextSup
    \/ loadBaseUrl
    \/ chatStream
    \/ apiCall
    \/ fileLink
    \/ settled

\* The page as loaded, no submission.
Idle ==
    /\ messages = <<Greeting>>
    /\ isProcessing = FALSE
    /\ isThinking = FALSE
    /\ error = NullError
    /\ crashed = FALSE
    /\ streams = <<>>
    /\ quota = 0
    /\ turnCap = 0

\* The bounds of a behaviour: the first start attempt alone with failures
\* enough to use up its attempts, or restarts with fewer failures.
Regimes == {[spawns |-> 1, fails |-> maxAttempts], [spawns |-> MaxSpawns, fails |-> MaxFails]}

InitSup ==
    /\ Idle
    /\ \E r \in Regimes : Constructed(r.spawns, r.fails)
    /\ platform \in Platforms
    /\ busy \in SUBSET {PreferredPort}

RegimesFront == {[spawns |-> 1, fails |-> maxAttempts], [spawns |-> MaxInstances, fails |-> 0]}

InitFront ==
    /\ Idle
    /\ \E r \in RegimesFront : Constructed(r.spawns, r.fails)
    /\ platform \in Platforms
    /\ busy \in SUBSET {PreferredPort}

\* The supervisor under every interleaving of its callbacks.
SpecSup == InitSup /\ [][NextSup]_vars

\* The supervisor with the page that asks it for the address.
SpecFront == InitFront /\ [][NextApp]_vars

\* The life cycle of the children: as SpecSup, with one failing health request
\* where SpecSup has MaxFails.
RegimesLife == {[spawns |-> 1, fails |-> maxAttempts], [spawns |-> MaxSpawns, fails |-> 1]}

InitLife ==
    /\ Idle
    /\ \E r \in RegimesLife : Constructed(r.spawns, r.fails)
    /\ platform \in Platforms
    /\ busy \in SUBSET {PreferredPort}

SpecLife == InitLife /\ [][NextSup]_vars

\* findAvailablePort in the first start attempt, with any of the ports held
\* by other processes while it searches.
NextPorts ==
    \/ whenReady
    \/ \E a \in Starts : listenError(a)
    \/ \E a \in Starts : listening(a)
    \/ \E c \in Children : childUp(c)
    \/ \E c \in Children : onExit(c)
    \/ \E p \in Ports : bind(p)
    \/ \E p \in Ports : unbind(p)
    \/ terminate

InitPorts ==
    /\ Idle
    /\ Constructed(1, 0)
    /\ platform \in Platforms
    /\ busy \in SUBSET Ports

SpecPorts == InitPorts /\ [][NextPorts]_vars

\* waitForBackend of the first start attempt through all of its attempts.
InitProbe ==
    /\ Idle
    /\ Constructed(1, maxAttempts)
    /\ platform \in Platforms
    /\ busy \in SUBSET {PreferredPort}

\* Time passes, every health request is answered or rejected in the end, the
\* continuation of an elapsed pause is run, and an error box that holds the
\* main process is dismissed in the end.
FairProbe ==
    /\ WF_vars(Tick)
    /\ WF_vars(\E a \in Starts : healthOk(a) \/ healthFail(a))
    /\ WF_vars(\E a \in Starts : wake(a))
    /\ WF_vars(\E c \in Children : dismissError(c))

SpecProbe == InitProbe /\ [][NextSup]_vars /\ FairProbe

\* ---------------------------------------------------------------- properties
Turns == 1..Len(streams)

Hello == UserMessage(<<"hello">>, 1)

\* The list right after the first submission.
Start == <<Greeting, Hello, Placeholder(1)>>

\* Turn s is the only submission so far and the list was not replaced since.
Alone(s) == s = 1 /\ Len(streams) = 1 /\ Len(messages) >= 2 /\ messages[2] = Hello

\* The positions of the assistant message created for turn s.
Own(s) == {i \in 1..Len(messages) : messages[i].turn = s /\ messages[i].role = "assistant"}

\* The list without the assistant message created for turn s.
WithoutOwn(list, s) == SelectSeq(list, LAMBDA m : ~(m.turn = s /\ m.role = "assistant"))

\* A step of the while loop of invocation s, and one whose read returned bytes.
LoopStep(s) == s \in Turns /\ streams[s].pc = "read" /\ streams'[s] # streams[s]
DataStep(s) == LoopStep(s) /\ streams'[s].outcome \notin {"eof", "transport"}

HasType(events, type) == \E i \in 1..Len(events) : events[i].type = type

Types(events) == [i \in 1..Len(events) |-> events[i].type]

\* The run of the first turn in which all of `bytes` arrive as one chunk.
Whole(bytes) ==
    LET d == decode(<<>>, bytes)
        lines == split(d.text)
        r == applyLines([messages |-> Start, messageContent |-> <<>>,
                         isProcessing |-> TRUE, applied |-> <<>>,
                         thrown |-> NullError, undefinedLast |-> FALSE],
                        Front(lines))
    IN [applied |-> r.applied,
        messageContent |-> r.messageContent,
        buffer |-> Last(lines),
        error |-> r.thrown,
        messages |-> IF r.thrown # NullError THEN dropLast(r.messages) ELSE r.messages]

\* C1: however the bytes read so far were cut into chunks, the loop has
\* applied the events, and holds the carry-over and the content, that it has
\* when the same bytes arrive as one chunk; it threw exactly if the one-chunk
\* run throws; and in a turn on its own the message list and the error
\* surface are those of the one-chunk run.
C1_ChunkBoundaryInvariance ==
    \A s \in Turns :
        LET st == streams[s]
            w == Whole(st.received)
        IN (s = Len(streams) /\ (st.pc = "read" \/ st.outcome \in {"eof", "error", "syntax"})) =>
              /\ st.applied = w.applied
              /\ (st.outcome \in {"error", "syntax"}) = (w.error # NullError)
              /\ (st.pc = "read" => st.buffer = w.buffer /\ st.messageContent = w.messageContent)
              /\ (Alone(s) => messages = w.messages /\ error = w.error)

\* A chunk boundary fell inside the two-byte character of a sources record
\* that follows an applied event.
C1_SplitInsideRecord ==
    \E s \in Turns :
        /\ Alone(s)
        /\ streams[s].pc = "read"
        /\ streams[s].pending # <<>>
        /\ streams[s].buffer # <<>>
        /\ streams[s].applied # <<>>

\* C2: once handleStop has run during an open stream (the only stream is open,
\* has applied no done event, and the processing flag is off), no step of that
\* stream changes the message list, the error surface or the processing flag.
C2_StopAbandonsRead ==
    [][\A s \in Turns :
          (/\ DataStep(s)
           /\ Len(streams) = 1
           /\ ~isProcessing
           /\ ~HasType(streams[s].applied, "done"))
          => UNCHANGED <<messages, error, isProcessing>>]_vars

\* C3: at most one invocation of handleSubmit has an open request or stream.
C3_OneTurnInFlight == Cardinality({s \in Turns : Open(streams[s])}) <= 1

\* C4: in a turn on its own, once a token event has been applied the turn's
\* assistant message is not thinking, whatever the stream delivers later.
C4_ThinkingStaysOff ==
    \A s \in Turns :
        (Alone(s) /\ streams[s].pc = "read" /\ HasType(streams[s].applied, "token")) =>
            \A i \in Own(s) : ~messages[i].isThinking

\* C5: no step changes the sources of an assistant message of a turn that
\* already has sources or has non-empty content.
C5_SourcesOnceBeforeContent ==
    [][\A i \in 1..Len(messages) :
          (/\ i <= Len(messages')
           /\ messages[i].role = "assistant"
           /\ messages[i].turn >= 1
           /\ messages'[i].turn = messages[i].turn
           /\ (messages[i].content # <<>> \/ messages[i].sources # NoSources))
          => messages'[i].sources = messages[i].sources]_vars

\* C6: the step that applies an error event removes the assistant message of
\* its own turn, leaves every other message as it was and puts the event's
\* text on the error surface.
C6_ErrorRollsBackOwnMessage ==
    [][\A s \in Turns :
          (DataStep(s) /\ streams'[s].outcome = "error")
          => (messages' = WithoutOwn(messages, s) /\ error' = ErrorText)]_vars

\* C7: once a stream has applied a done event, no later step of it changes a
\* message that stays in the list.
C7_NothingAfterDone ==
    [][\A s \in Turns :
          (DataStep(s) /\ HasType(streams[s].applied, "done"))
          => \A i \in 1..Len(messages') : i <= Len(messages) => messages'[i] = messages[i]]_vars

\* C8: the step that meets a record whose JSON does not parse ends the stream,
\* removes the assistant message of its own turn, leaves every other message
\* as it was and surfaces an error.
C8_MalformedRecordAborts ==
    [][\A s \in Turns :
          (DataStep(s) /\ streams'[s].outcome = "syntax")
          => (/\ streams'[s].pc = "closed"
              /\ messages' = WithoutOwn(messages, s)
              /\ error' # NullError)]_vars

\* The first turn ended by EOF after exactly one sources event.
SourcesThenEof ==
    /\ Alone(1)
    /\ streams[1].outcome = "eof"
    /\ Types(streams[1].applied) = <<"sources">>

\* C9: the read that returns EOF, with or without a done event before it,
\* changes no message, surfaces no error and resets the processing flag; and
\* a turn on its own that ended by EOF after one sources event has its
\* assistant message with these sources, still thinking, and no error.
C9_EofCompletesTurn ==
    [][/\ \A s \in Turns :
             (LoopStep(s) /\ streams'[s].outcome = "eof")
             => (messages' = messages /\ error' = error /\ ~isProcessing')
       /\ (SourcesThenEof =>
             /\ Own(1) = {3}
             /\ messages[3].sources = streams[1].applied[1].body
             /\ messages[3].isThinking
             /\ error = NullError)']_vars

\* A sources event, then EOF without done: the message is kept, thinking.
C9_SourcesThenEofReached ==
    /\ SourcesThenEof
    /\ ~HasType(streams[1].applied, "done")
    /\ ~isProcessing
    /\ error = NullError
    /\ messages[3].sources = <<"é">>
    /\ messages[3].isThinking

RECURSIVE Tokens(_)
\* The contents of the token events of a sequence of events, in order.
Tokens(events) ==
    IF events = <<>> THEN <<>>
    ELSE (IF Head(events).type = "token" THEN Head(events).body ELSE <<>>)
         \o Tokens(Tail(events))

\* C10: in a turn on its own the content of the turn's assistant message is
\* the concatenation, in arrival order, of the contents of the token events
\* applied so far; after sources, "Hi", " there" (and done) it is "Hi there",
\* not thinking, with the sources.
C10_ContentIsConcatenation ==
    \A s \in Turns :
        (Alone(s) /\ (streams[s].pc = "read" \/ streams[s].outcome = "eof")) =>
            /\ Own(s) = {3}
            /\ messages[3].content = Tokens(streams[s].applied)
            /\ (/\ Types(streams[s].applied) \in
                       {<<"sources", "token", "token">>, <<"sources", "token", "token", "done">>}
                /\ \A i \in {2, 3} : streams[s].applied[i].body # <<>>
                => /\ messages[3].content = <<"Hi", " there">>
                   /\ ~messages[3].isThinking
                   /\ messages[3].sources = <<"é">>)

\* sources, "Hi", " there" have been applied in a turn on its own.
C10_HiThereReached ==
    /\ Alone(1)
    /\ Types(streams[1].applied) = <<"sources", "token", "token">>
    /\ messages[3].content = <<"Hi", " there">>
    /\ ~messages[3].isThinking

\* The events applied by the step of invocation s.
NewEvents(s) ==
    SubSeq(streams'[s].applied, Len(streams[s].applied) + 1, Len(streams'[s].applied))

\* C11: a step turns the isThinking of an assistant message of a turn from
\* true to false only by applying a token event whose content is not empty;
\* a token event with empty content, a sources event and a done event leave it
\* as it was.
C11_ThinkingClearedByText ==
    [][\A i \in 1..Len(messages) :
          (/\ i <= Len(messages')
           /\ messages[i].role = "assistant"
           /\ messages'[i].role = "assistant"
           /\ messages[i].turn >= 1
           /\ messages'[i].turn = messages[i].turn
           /\ messages[i].isThinking
           /\ ~messages'[i].isThinking)
          => \E s \in Turns :
                /\ DataStep(s)
                /\ \E j \in 1..Len(NewEvents(s)) :
                      NewEvents(s)[j].type = "token" /\ NewEvents(s)[j].body # <<>>]_vars

\* The step in which invocation s fails: fetch rejected or not OK, read
\* rejected, a record that does not parse, an error event.
FailStep(s) ==
    /\ s \in Turns
    /\ Open(streams[s])
    /\ streams'[s].outcome \in {"fetch", "transport", "syntax", "error"}

\* C12: the step in which a turn fails leaves the processing flag false, so
\* that the next submission is accepted, surfaces an error, and removes the
\* assistant message of that turn and nothing else: every other message is as
\* it was.
C12_FailureIsLocal ==
    [][\A s \in Turns :
          FailStep(s) =>
              /\ ~isProcessing'
              /\ error' # NullError
              /\ messages' = WithoutOwn(messages, s)]_vars

\* ---------------------------------------------------------------- properties: supervisor
\* C13: once stopBackend has run on a quit request, no step schedules a
\* restart, enters startBackend or spawns a child.
C13_StopIsTerminal ==
    [][app = "quitting" =>
          /\ Len(timers') <= Len(timers)
          /\ Len(children') = Len(children)]_vars

\* C14: at most one invocation of startBackend is in progress.
C14_OneStartInProgress ==
    Cardinality({a \in Starts : InProgress(starts[a])}) <= 1

\* C15: the exit of a child while backendReady is true clears the flag and
\* arms a restart timer of RestartDelay, and startBackend is entered from a
\* timer only when the whole delay has passed.
C15_ExitWhileReadyRestarts ==
    [][/\ \A c \in Children :
             (backendReady /\ Alive(c) /\ children'[c].state = "exited")
             => (~backendReady' /\ timers' = Append(timers, RestartDelay))
       /\ (starts # <<>> /\ Len(starts') > Len(starts))
             => (timers # <<>> /\ Head(timers) = 0 /\ timers' = Tail(timers))]_vars

\* C16: the step in which waitForBackend has used up its attempts opens the
\* error box and leaves the child of that start attempt exited or signalled.
C16_ProbeTimeoutKillsChild ==
    [][\A a \in Starts :
          (starts[a].pc = "sleep" /\ starts'[a].pc # "sleep" /\ starts'[a].i = maxAttempts)
          => /\ starts'[a].pc = "showErrorBox"
             /\ \/ children'[starts[a].child].state \notin Live
                \/ children'[starts[a].child].signals > 0]_vars

NoAddress == 0

\* C17: whenever a page can ask, get-backend-url answers with an address only
\* if backendReady is true.
C17_AddressOnlyWhenReady ==
    InPage => (backendReady \/ getBackendUrl = NoAddress)

\* The ports of the instances before the current one.
PreviousPorts == {children[c].port : c \in 1..(Len(children) - 1)}

\* C18: while the current instance serves on backendPort, no request of a
\* caller that has asked for the address goes to the port of an earlier
\* instance.
C18_NoStaleAddress ==
    [][(/\ sent = NoRequest
        /\ sent' # NoRequest
        /\ sent'.by = "files" => ~hook.isLoading
        /\ backendReady
        /\ Serving(backendPort))
       => (sent'.to = backendPort \/ sent'.to \notin PreviousPorts)]_vars

\* C19: in every state stopBackend applied twice yields what it yields
\* applied once: the same handle, readiness flag and signals sent.
C19_StopIdempotent ==
    stopBackend(stopBackend(Handle)) = stopBackend(Handle)

\* A ready service whose child lives: stopBackend sends it one signal.
C19_StopOfLiveChild ==
    /\ backendProcess # 0
    /\ Alive(backendProcess)
    /\ backendReady
    /\ stopBackend(Handle).children[backendProcess].signals = 1
    /\ stopBackend(Handle).backendProcess = 0

\* C20: when the application has ended, every child has exited or has been
\* sent the signal of stopBackend.
C20_NoChildOutlivesApp ==
    app = "ended" =>
        \A c \in Children : ~Alive(c) \/ children[c].signals > 0

\* A step of findAvailablePort in start attempt a.
Searching(a) == a \in Starts /\ starts[a].pc = "listen"

TriedNext(a) == Searching(a) /\ starts'[a].pc = "listen" /\ starts'[a].startPort # starts[a].startPort

Resolved(a) == Searching(a) /\ starts'[a].pc # "listen"

\* C21: findAvailablePort(p) begins at p, goes from a port to the next one only
\* when the port is occupied at the time it is tried, and returns the port it
\* is trying only when that port is free at that time, so what it returns is
\* the smallest port from p on that was free when tried, never an occupied
\* one; the probe listener is closed before the port is returned, so after the
\* return nothing but the child holds the port.
C21_SmallestFreePort ==
    [][\A a \in 1..Len(starts') :
          /\ a \notin Starts => starts'[a].pc = "listen" /\ starts'[a].startPort = PreferredPort
          /\ TriedNext(a) => ~Free(starts[a].startPort)
                               /\ starts'[a].startPort = starts[a].startPort + 1
          /\ Resolved(a) => /\ Free(starts[a].startPort)
                             /\ backendPort' = starts[a].startPort
                             /\ children'[starts'[a].child].port = starts[a].startPort
                             /\ starts[a].startPort \notin busy']_vars

\* The preferred port and the next one were occupied when tried, and the third
\* was returned and given to the child.
C21_ThirdPortReturned ==
    /\ Len(starts) = 1 /\ starts[1].pc = "fetch"
    /\ backendPort = PreferredPort + 2
    /\ children[1].port = PreferredPort + 2
    /\ busy = {PreferredPort, PreferredPort + 1}

\* A bound on the ports one search may try; the search of the code has none,
\* so any value within Ports serves.
SearchBound == MaxSpawns

\* C22: findAvailablePort tries at most SearchBound consecutive ports, from
\* the preferred one on: when all of them were occupied it has failed, and
\* it never comes to listen on a port beyond them.
C22_SearchIsBounded ==
    \A a \in Starts :
        starts[a].pc = "listen" => starts[a].startPort < PreferredPort + SearchBound

\* Start attempt a is in waitForBackend.
Probing(a) == a \in Starts /\ starts[a].pc \in {"fetch", "sleep"}

\* C23: waitForBackend issues at most maxAttempts (30) health requests, each
\* but the first after a whole interval has passed since the answer to the one
\* before; at the first successful answer it returns true with the flag set
\* and issues no further request; a failed request is followed by the pause,
\* and after the pause of the 30th it reports failure; and it terminates:
\* once entered, it has returned or thrown in the end, unless the application
\* has ended first.
C23_ProbeTerminates ==
    /\ [][\A a \in Starts :
            /\ starts'[a].pc = "fetch" =>
                   /\ starts'[a].i < maxAttempts
                   /\ starts[a].pc = "sleep" =>
                          starts[a].timer = 0 /\ starts'[a].i = starts[a].i + 1
            /\ starts[a].pc = "fetch" /\ starts'[a].pc # "fetch" =>
                   \/ starts'[a].pc = "returned" /\ starts'[a].ok /\ backendReady'
                                                 /\ Serving(starts[a].target)
                   \/ starts'[a].pc = "sleep" /\ starts'[a].timer = ProbeInterval
            /\ starts[a].pc = "sleep" /\ starts'[a].pc = "showErrorBox" =>
                   starts[a].i + 1 = maxAttempts
            /\ starts[a].pc = "returned" => starts'[a].pc = "returned"]_vars
    /\ Probing(1) ~> (~Probing(1) \/ app = "ended")

\* The 30th health request has failed and waitForBackend has thrown.
C23_ThirtyRequestsFailed ==
    /\ Len(starts) = 1 /\ starts[1].pc = "showErrorBox"
    /\ starts[1].i = maxAttempts /\ starts[1].child # 0
    /\ failCap = 0

\* stopBackend has been invoked and the application has not ended yet.
Stopped == app = "quitting"

\* C24: after stopBackend was invoked while a start attempt was in
\* waitForBackend, no attempt issues a further health request and the
\* readiness flag is not set to true.
C24_StopCancelsProbe ==
    [][Stopped /\ (\E a \in Starts : Probing(a)) =>
          /\ \A a \in Starts : starts'[a].pc = "fetch" => starts[a].pc = "fetch"
          /\ ~backendReady']_vars

\* C25: while a child is alive, backendPort (what get-backend-url and
\* get-backend-status return and what the health probe uses) is the
\* BACKEND_PORT that child was spawned with.
C25_PortOfLiveChild ==
    \A c \in Children : Alive(c) => backendPort = children[c].port

\* A second instance serves on the port next to the preferred one.
C25_SecondInstanceOnNextPort ==
    /\ Len(children) = 2 /\ children[2].state = "serving"
    /\ children[2].port = PreferredPort + 1
    /\ backendPort = PreferredPort + 1
    /\ children[1].port = PreferredPort

\* C26: a startup failure (the process cannot be spawned, or the probe runs
\* out of attempts) opens no blocking dialog: the main process is never held
\* in dialog.showErrorBox.
C26_NoModalOnStartupFailure == ~Blocked

\* The health request of start attempt a is answered with success in this step.
ProbeSucceeds(a) ==
    a \in Starts /\ starts[a].pc = "fetch" /\ starts'[a].pc = "returned" /\ starts'[a].ok

\* C27: backendReady goes from false to true only in a step in which the
\* health probe of the current (latest) start attempt succeeds.
C27_ReadyOnlyByProbe ==
    [][(~backendReady /\ backendReady') => ProbeSucceeds(Len(starts))]_vars

\* C28: in every reachable state backendReady implies that a child process is
\* alive.
C28_ReadyImpliesChildAlive ==
    backendReady => \E c \in Children : Alive(c)

\* The children alive, and the start attempts that have not spawned yet.
LiveChildren == {c \in Children : Alive(c)}

Unspawned == {a \in Starts : starts[a].pc = "listen"}

\* C29: the live children, the pending restart timers and the start attempts
\* that have not yet spawned number at most one together; so at most one child
\* is alive at any time.
C29_AtMostOneChild ==
    Cardinality(LiveChildren) + Len(timers) + Cardinality(Unspawned) <= 1

\* The first child has exited, its restart timer has fired, the restart has
\* spawned the second child, and a stop has signalled it: it alone is alive.
C29_SecondChildAlone ==
    /\ Len(children) = 2
    /\ children[1].state = "exited"
    /\ Alive(2) /\ children[2].signals = 1
    /\ timers = <<>>
    /\ Unspawned = {}

\* Child c exits in this step.
Exits(c) == Alive(c) /\ children'[c].state = "exited"

\* startBackend has been entered, and there is no live child, no restart
\* timer and no start attempt that has yet to spawn.
Dormant ==
    /\ starts # <<>>
    /\ LiveChildren = {}
    /\ timers = <<>>
    /\ Unspawned = {}

C31_StreamTouchesOwnMessageOnly ==
    [][\A s \in Turns :
          LoopStep(s) => WithoutOwn(messages', s) = WithoutOwn(messages, s)]_vars

\* A submission is accepted in this step: an invocation of handleSubmit has
\* passed its guard.
Accepted == Len(streams') = Len(streams) + 1

\* C32: an accepted submission appends the user message with the trimmed text
\* and, after it, an assistant placeholder with empty content and isThinking
\* true, changes no message before them and sets the processing flag, which
\* was not set; and a submission whose trimmed text is empty, or made while
\* the processing flag is set, is not accepted: it is no step at all.
C32_SubmissionFrame ==
    [][/\ Accepted =>
             /\ ~isProcessing /\ isProcessing'
             /\ \E text \in Inputs :
                    /\ trim(text) # <<>>
                    /\ messages' = messages \o
                          <<[role |-> "user", content |-> trim(text), sources |-> NoSources,
                             isThinking |-> FALSE, turn |-> Len(streams')],
                            [role |-> "assistant", content |-> <<>>, sources |-> NoSources,
                             isThinking |-> TRUE, turn |-> Len(streams')]>>
       /\ \A text \in Inputs :
             (trim(text) = <<>> \/ isProcessing) => ~ENABLED handleSubmit(text)]_vars

\* A second submission was accepted after the first turn ended: its two
\* messages are the last of the list.
C32_SecondSubmissionAccepted ==
    /\ Len(streams) = 2 /\ streams[2].pc = "fetch"
    /\ streams[1].outcome = "eof"
    /\ isProcessing
    /\ Len(messages) >= 2
    /\ Last(messages) = Placeholder(2)
    /\ messages[Len(messages) - 1] = UserMessage(<<"hello">>, 2)

\* The children before c have all exited: the exit of c is the c-th in a row.
InARow(c) == \A b \in 1..(c - 1) : children[b].state = "exited"

\* C33: for every n, the exit of the n-th child in a row with the main window
\* open arms a restart timer of the same delay RestartDelay: there is no cap
\* and no backoff, the supervisor does not give up restarting.
C33_RestartsUncapped ==
    [][\A c \in Children :
          (Exits(c) /\ InARow(c) /\ mainWindow = "open")
          => /\ Len(timers') = Len(timers) + 1
             /\ Last(timers') = RestartDelay]_vars

\* Every child the bounds allow has crashed, one after the other, and the
\* restart after the last crash is pending with the full delay.
C33_RestartAfterLastCrash ==
    /\ Len(children) = MaxSpawns
    /\ \A c \in Children : children[c].state = "exited"
    /\ timers = <<RestartDelay>>
    /\ mainWindow = "open"

\* ------------------------------------------------------- unterminated records
\* The read of stream s that returns done.
EOF(s) == s \in Turns /\ streams[s].pc = "read" /\ streams'[s].outcome = "eof"

\* C34: when EOF arrives while the carry-over buffer holds a line that no
\* newline ended, that line is not processed: the step applies no event,
\* changes no message, reports no error, and ends the turn as a completion
\* (the stream is closed with the outcome of an EOF, the processing flag is
\* reset).
C34_UnterminatedRecordDropped ==
    [][\A s \in 1..Len(streams) :
          (EOF(s) /\ streams[s].buffer # <<>>)
             => /\ streams'[s].applied = streams[s].applied
                /\ messages' = messages
                /\ error' = error
                /\ ~isProcessing'
                /\ streams'[s].pc = "closed"]_vars

\* A turn ended by EOF whose only record, a complete token record without its
\* newline, is still in the buffer: no event, an empty answer, no error.
C34_UnterminatedTokenAtEOF ==
    /\ Len(streams) = 1
    /\ streams[1].pc = "closed"
    /\ streams[1].outcome = "eof"
    /\ streams[1].buffer = Line("T", 1)
    /\ streams[1].applied = <<>>
    /\ messages = <<Greeting, UserMessage(<<"hello">>, 1), Placeholder(1)>>
    /\ error = NullError
    /\ ~isProcessing

\* ------------------------------------------------------------ ignored lines
\* A pass of the read loop of stream s that throws nothing and applies no
\* sources, token, done or error event: all the lines it completed are lines
\* without the marker or well-formed records of another type.
Ignoring(s) == DataStep(s) /\ streams'[s].pc = "read" /\ NewEvents(s) = <<>>

\* A pass of the read loop of stream s whose events are done events only.
OnlyDone(s) ==
    /\ DataStep(s)
    /\ NewEvents(s) # <<>>
    /\ \A i \in 1..Len(NewEvents(s)) : NewEvents(s)[i].type = "done"

\* C35: a pass of the read loop that meets only lines without the marker and
\* well-formed records whose type is none of sources, token, done, error
\* leaves the message list, the error surface and the processing flag
\* unchanged; a pass whose events are done events changes no message.
C35_OnlyKnownRecordsAct ==
    [][\A s \in 1..Len(streams) :
          /\ Ignoring(s) => /\ messages' = messages
                            /\ error' = error
                            /\ isProcessing' = isProcessing
          /\ OnlyDone(s) => messages' = messages]_vars

====
